---- MODULE Spec2Model ----
(***************************************************************************)
(* Response commit state machine and guarded write path of thinkgo's       *)
(* response layer (Response, Context.Send and the serializers built on     *)
(* it), modelled over an http.ResponseWriter whose calls and wire output   *)
(* are recorded.                                                           *)
(***************************************************************************)
EXTENDS Integers, Sequences, FiniteSets, TLC

VARIABLES
    status,         \* Response.status
    size,           \* Response.size
    committed,      \* Response.committed
    header,         \* resp.writer.Header(): key -> list of values
    wroteHeader,    \* the writer has put a status line on the wire
    wireStatus,     \* status code of that status line (0: none yet)
    wireHeader,     \* the header map as it went out with the status line
    wireBody,       \* body bytes the writer reported written
    whCalls,        \* statuses passed to writer.WriteHeader, in call order
    hookCalls,      \* number of Context.beforeWriteHeader calls
    warnings,       \* number of Log().Warning calls
    encCalls,       \* number of acceptencoder.ParseEncoding/WriteBody rounds
    enableGzip,     \* Context.enableGzip
    acceptEncoding, \* the request's Accept-Encoding header
    caps,           \* optional interfaces the writer implements
    stopped,        \* Context.Stop has halted the handler chain
    last,           \* the call that produced this state, with its pre-state
    prev,           \* the call before it
    steps           \* calls made so far

vars == <<status, size, committed, header, wroteHeader, wireStatus, wireHeader,
          wireBody, whCalls, hookCalls, warnings, encCalls, enableGzip,
          acceptEncoding, caps, stopped, last, prev, steps>>

\* ------------------------------------------------------------------ bounds
MaxSteps == 3
MaxSerSteps == 2
MaxHelperSteps == 2

\* --------------------------------------------------------------- constants
HeaderContentEncoding == "Content-Encoding"
HeaderContentLength == "Content-Length"
HeaderContentType == "Content-Type"
HeaderSetCookie == "Set-Cookie"
HeaderContentDescription == "Content-Description"
HeaderContentDisposition == "Content-Disposition"
HeaderContentTransferEncoding == "Content-Transfer-Encoding"
HeaderExpires == "Expires"
HeaderCacheControl == "Cache-Control"
HeaderPragma == "Pragma"
HeaderKeys == {HeaderContentEncoding, HeaderContentLength, HeaderContentType,
               HeaderSetCookie, HeaderContentDescription,
               HeaderContentDisposition, HeaderContentTransferEncoding,
               HeaderExpires, HeaderCacheControl, HeaderPragma}

StatusOK == 200
StatusNotFound == 404
Statuses == {StatusOK, StatusNotFound}

\* frame.config.RunMode, read by the serializers at each call.
RUNMODE_PROD == "prod"
RUNMODE_DEV == "dev"
RunModes == {RUNMODE_PROD, RUNMODE_DEV}

ErrNone == ""
ErrCommitted == "multiple response.WriteHeader calls"
ErrTransport == "transport write failed"
ErrMarshal == "marshal: unsupported type"
ErrHijack == "webserver doesn't support hijacking"

\* Bodies handed to Write and Send; the last one is ten bytes long.
Contents == {"", "abc", "0123456789"}
\* Outcomes of one writer.Write call: everything written, or a failing
\* write that took only part of the bytes.
WriterOutcomes == {"ok", "fail"}
AcceptEncodings == {"", "gzip"}
\* Writers: a bare http.ResponseWriter, and one that is also an http.Flusher,
\* http.Hijacker and http.CloseNotifier (as net/http's own is).
WriterKinds == {{}, {"Flusher", "Hijacker", "CloseNotifier"}}
\* Cookies handed to the Response cookie methods.
Cookies == {[name |-> "a", value |-> "1"], [name |-> "b", value |-> "2"]}

MIMEApplicationJSONCharsetUTF8 == "application/json; charset=utf-8"
MIMEApplicationJavaScriptCharsetUTF8 == "application/javascript; charset=utf-8"
MIMEOctetStream == "application/octet-stream"
MIMETextPlainCharsetUTF8 == "text/plain; charset=utf-8"
MIMETextHTMLCharsetUTF8 == "text/html; charset=utf-8"
MIMEApplicationXMLCharsetUTF8 == "application/xml; charset=utf-8"
xmlHeader == "<?xml version=\"1.0\" encoding=\"UTF-8\"?>\n"

\* Values handed to the serializers: T{A: 1} for a struct type T with one int
\* field A, the map {"a": 1} (which encoding/xml cannot marshal), and a
\* channel (which neither package can marshal).
Datas == {"struct", "map", "chan"}
Callbacks == {"cb", "a'b"}

\* Statuses a handler commits before it asks the classification helpers:
\* the codes the helpers name, and the codes on either side of each range.
HelperStatuses == {199, 200, 201, 204, 299, 300, 301, 302, 303, 304, 307, 308,
                   399, 400, 403, 404, 499, 500, 599, 600}
Helpers == {"IsCachable", "IsEmpty", "IsOk", "IsSuccessful", "IsRedirect",
            "IsForbidden", "IsNotFound", "IsClientError", "IsServerError"}

\* Formats and operands handed to Context.String: a literal, a literal with
\* a percent sign, a format with its operand and a literal with an operand
\* too many.
FormatCalls == {<<"abc", <<>>>>, <<"100%", <<>>>>, <<"hi %s", <<"bob">>>>,
                <<"abc", <<"bob">>>>}

\* Arguments of Context.File: paths with and without directories, one ending
\* in a separator and the empty path; no display name, an empty one, and
\* one or two names.
FilePaths == {"/tmp/report.pdf", "report.pdf", "/srv/files/", ""}
FileNames == {<<>>, <<"">>, <<"out.pdf">>, <<"", "x.pdf">>, <<"out.pdf", "x.pdf">>}

\* Arguments of Context.SetCookie: names and values with and without the
\* bytes the sanitizers replace, wall-clock times (seconds into the epoch),
\* and for each optional position the values of the types the code tells
\* apart there.
CookieNames == {"sid", "a\nb\rc"}
CookieValues == {"v", "x;y", "a\r\nb;"}
Nows == {0, 30}

\* ------------------------------------------------------------- http.Header
EmptyHeader == [k \in HeaderKeys |-> <<>>]
HeaderGet(h, k) == IF h[k] = <<>> THEN "" ELSE h[k][1]
HeaderSet(h, k, v) == [h EXCEPT ![k] = <<v>>]
HeaderAdd(h, k, v) == [h EXCEPT ![k] = Append(@, v)]
HeaderDel(h, k) == [h EXCEPT ![k] = <<>>]

\* ---------------------------------------------------------- strconv.Itoa
Digit(d) ==
    CASE d = 0 -> "0" [] d = 1 -> "1" [] d = 2 -> "2" [] d = 3 -> "3"
      [] d = 4 -> "4" [] d = 5 -> "5" [] d = 6 -> "6" [] d = 7 -> "7"
      [] d = 8 -> "8" [] d = 9 -> "9"

RECURSIVE Itoa(_)
Itoa(n) == IF n < 10 THEN Digit(n) ELSE Itoa(n \div 10) \o Digit(n % 10)

\* ---------------------------------------------------------- filepath.Base
CharAt(str, i) == SubSeq(str, i, i)
Max(S) == CHOOSE x \in S : \A y \in S : y <= x

\* The last element of path, trailing separators removed first; "." for the
\* empty path and "/" for a path of separators only.
filepathBase(path) ==
    LET names == {i \in 1..Len(path) : CharAt(path, i) # "/"}
        end == Max(names)
        seps == {i \in 1..end : CharAt(path, i) = "/"}
    IN  IF path = "" THEN "."
        ELSE IF names = {} THEN "/"
        ELSE SubSeq(path, IF seps = {} THEN 1 ELSE Max(seps) + 1, end)

\* ------------------------------------------------------- the world record
\* The operations below are functions from the state before a call to the
\* state after it. ev lists what the call did, in order; err is what it
\* returns ("" for nil).
World ==
    [status |-> status, size |-> size, committed |-> committed,
     header |-> header, wroteHeader |-> wroteHeader,
     wireStatus |-> wireStatus, wireHeader |-> wireHeader,
     wireBody |-> wireBody, whCalls |-> whCalls, hookCalls |-> hookCalls,
     warnings |-> warnings, encCalls |-> encCalls,
     enableGzip |-> enableGzip, acceptEncoding |-> acceptEncoding,
     caps |-> caps, stopped |-> stopped, ev |-> <<>>, err |-> ErrNone]

\* Events are <<kind, argument>> pairs of strings.
Event(w, kind, arg) == [w EXCEPT !.ev = Append(@, <<kind, arg>>)]

\* ctx.W.Header().Set(key, val)
SetHeader(w, key, val) ==
    Event([w EXCEPT !.header = HeaderSet(@, key, val)], "set", key)

\* ------------------------------------------------- the http.ResponseWriter
\* writer.WriteHeader(status): the first status line goes out with the
\* header map as it is now; the writer ignores a later call.
writerWriteHeader(w, s) ==
    LET c == Event([w EXCEPT !.whCalls = Append(@, s)], "status", Itoa(s))
    IN  IF w.wroteHeader THEN c
        ELSE [c EXCEPT !.wroteHeader = TRUE, !.wireStatus = s,
                       !.wireHeader = w.header]

\* Bytes a writer.Write(b) reports written under outcome t.
NWritten(b, t) == IF t = "ok" THEN Len(b) ELSE Len(b) \div 2

\* writer.Write(b): "If WriteHeader has not yet been called, Write calls
\* WriteHeader(http.StatusOK) before writing the data."
writerWrite(w, b, t) ==
    LET h == IF w.wroteHeader THEN w
             ELSE [w EXCEPT !.wroteHeader = TRUE, !.wireStatus = StatusOK,
                            !.wireHeader = w.header]
    IN  Event([h EXCEPT !.wireBody = @ \o SubSeq(b, 1, NWritten(b, t)),
                        !.err = IF t = "ok" THEN ErrNone ELSE ErrTransport],
              "body", b)

\* ----------------------------------------------------------------- Response
\* Context.beforeWriteHeader: the pre-commit hook.
beforeWriteHeader(w) == Event([w EXCEPT !.hookCalls = @ + 1], "hook", "")

\* Context.Log().Warning(...)
LogWarning(w) == Event([w EXCEPT !.warnings = @ + 1], "warn", "")

\* WriteHeader whose repeated call gives the commit up again.
WriteHeader_RepeatUncommits(w, s) ==
    IF w.committed
    THEN [LogWarning(w) EXCEPT !.committed = FALSE]
    ELSE LET a == [w EXCEPT !.status = s]
             b == beforeWriteHeader(a)
             c == writerWriteHeader(b, s)
         IN  Event([c EXCEPT !.committed = TRUE], "committed", "")

\* WriteHeader running the pre-commit hook after the status line has gone.
WriteHeader_HookLate(w, s) ==
    IF w.committed
    THEN LogWarning(w)
    ELSE LET a == [w EXCEPT !.status = s]
             b == writerWriteHeader(a, s)
             c == beforeWriteHeader(b)
         IN  Event([c EXCEPT !.committed = TRUE], "committed", "")

\* WriteHeader storing the status before it looks at committed.
WriteHeader_StatusFirst(w, s) ==
    LET a == [w EXCEPT !.status = s]
    IN  IF w.committed
        THEN LogWarning(a)
        ELSE LET b == beforeWriteHeader(a)
                 c == writerWriteHeader(b, s)
             IN  Event([c EXCEPT !.committed = TRUE], "committed", "")

WriteHeader(w, s) ==
    IF w.committed
    THEN LogWarning(w)
    ELSE LET a == [w EXCEPT !.status = s]
             b == beforeWriteHeader(a)
             c == writerWriteHeader(b, s)
         IN  Event([c EXCEPT !.committed = TRUE], "committed", "")

\* Write counting the bytes it was given, not the bytes written.
Write_CountsRequested(w, b, t) ==
    LET a == writerWrite(w, b, t)
    IN  [a EXCEPT !.size = @ + Len(b)]

Write(w, b, t) ==
    LET a == writerWrite(w, b, t)
    IN  [a EXCEPT !.size = @ + NWritten(b, t)]

\* newResponse(ctx, w): the Response a new writer w is wrapped in, under the
\* configuration and request of this context.
newResponse ==
    [status |-> 0, size |-> 0, committed |-> FALSE,
     header |-> EmptyHeader, wroteHeader |-> FALSE, wireStatus |-> 0,
     wireHeader |-> EmptyHeader, wireBody |-> "", whCalls |-> <<>>,
     hookCalls |-> 0, warnings |-> 0, encCalls |-> 0,
     enableGzip |-> enableGzip, acceptEncoding |-> acceptEncoding,
     caps |-> caps, stopped |-> stopped, ev |-> <<>>, err |-> ErrNone]

\* reset leaving committed as it was.
reset_KeepsCommitted(w) ==
    [w EXCEPT !.status = 0, !.size = 0,
              !.header = EmptyHeader, !.wroteHeader = FALSE,
              !.wireStatus = 0, !.wireHeader = EmptyHeader, !.wireBody = "",
              !.whCalls = <<>>, !.hookCalls = 0, !.warnings = 0,
              !.encCalls = 0]

reset(w) ==
    [w EXCEPT !.status = 0, !.size = 0, !.committed = FALSE,
              \* resp.writer = w: a writer nothing has been written to
              !.header = EmptyHeader, !.wroteHeader = FALSE,
              !.wireStatus = 0, !.wireHeader = EmptyHeader, !.wireBody = "",
              !.whCalls = <<>>, !.hookCalls = 0, !.warnings = 0,
              !.encCalls = 0]

NoContent(w, s) == WriteHeader(w, s)

\* f.Flush() on a writer that is an http.Flusher: sends what is buffered,
\* after the status line and headers if they have not gone out yet.
writerFlush(w) ==
    LET h == IF w.wroteHeader THEN w
             ELSE [w EXCEPT !.wroteHeader = TRUE, !.wireStatus = StatusOK,
                            !.wireHeader = w.header]
    IN  Event(h, "flush", "")

Flush(w) == IF "Flusher" \in w.caps THEN writerFlush(w) ELSE w

\* hj.Hijack() on a writer that is an http.Hijacker: the connection and its
\* buffer are handed over.
writerHijack(w) == Event(Event(w, "hijack", ""), "return", "conn, rw")

\* Hijack answering nil, nil, nil on a writer that cannot be hijacked.
Hijack_NilError(w) ==
    IF "Hijacker" \notin w.caps THEN Event(w, "return", "nil, nil")
    ELSE writerHijack(w)

Hijack(w) ==
    IF "Hijacker" \notin w.caps
    THEN [Event(w, "return", "nil, nil") EXCEPT !.err = ErrHijack]
    ELSE writerHijack(w)

CloseNotify(w) ==
    IF "CloseNotifier" \in w.caps
    THEN Event(Event(w, "closenotify", ""), "return", "chan")
    ELSE Event(w, "return", "nil")

\* http.Cookie.String() for a cookie with only a name and a value.
CookieString(c) == c.name \o "=" \o c.value

AddCookie(w, c) ==
    Event([w EXCEPT !.header = HeaderAdd(@, HeaderSetCookie, CookieString(c))],
          "add", HeaderSetCookie)

\* SetCookie adding to the entries already there.
SetCookie_Appends(w, c) ==
    Event([w EXCEPT !.header = HeaderAdd(@, HeaderSetCookie, CookieString(c))],
          "set", HeaderSetCookie)

SetCookie(w, c) == SetHeader(w, HeaderSetCookie, CookieString(c))

DelCookie(w) ==
    Event([w EXCEPT !.header = HeaderDel(@, HeaderSetCookie)],
          "del", HeaderSetCookie)

\* ------------------------------------------------------------ acceptencoder
\* ParseEncoding(ctx.R): the encoding negotiated from Accept-Encoding.
ParseEncoding(ae) == IF ae \in {"gzip", "deflate"} THEN ae ELSE ""

\* The compressed form of content: never the content itself.
Compress(encoding, content) == "<" \o encoding \o ">" \o content

\* WriteBody(encoding, buf, content) as [applied, name, buf]: with a usable
\* encoding the body is compressed into buf under that encoding's name;
\* without one nothing is applied and the content is passed through.
WriteBody(encoding, content) ==
    IF encoding # ""
    THEN [applied |-> TRUE, name |-> encoding,
          buf |-> Compress(encoding, content)]
    ELSE [applied |-> FALSE, name |-> "", buf |-> content]

\* io.Copy(ctx.W, buf): bytes.Buffer.WriteTo makes one Write of the whole
\* buffer, and none when the buffer is empty; a short write without an error
\* is reported as io.ErrShortWrite.
ioCopy(w, buf, t) == IF Len(buf) = 0 THEN w ELSE Write(w, buf, t)

\* --------------------------------------------------------------------- Send
\* t is the outcome of the body write. Send is written in layers: SendPlain
\* is the uncompressed path with its Content-Length, SendNegotiated the
\* branch taken when no Content-Encoding is set, SendUncommitted is Send past
\* its committed check.

\* The plain path writing the body before it commits.
SendPlain_BodyFirst(w, s, content, t) ==
    LET b == IF HeaderGet(w.header, HeaderContentLength) = ""
             THEN SetHeader(w, HeaderContentLength, Itoa(Len(content)))
             ELSE w
        c == Write(b, content, t)
    IN  WriteHeader(c, s)

\* The plain path setting Content-Length whatever the caller has set.
SendPlain_OverwritesLength(w, s, content, t) ==
    LET b == SetHeader(w, HeaderContentLength, Itoa(Len(content)))
        c == WriteHeader(b, s)
    IN  Write(c, content, t)

SendPlain(w, s, content, t) ==
    LET b == IF HeaderGet(w.header, HeaderContentLength) = ""
             THEN SetHeader(w, HeaderContentLength, Itoa(Len(content)))
             ELSE w
        c == WriteHeader(b, s)
    IN  Write(c, content, t)

SendNegotiated(w, s, content, t) ==
    LET a == IF w.enableGzip
             THEN Event([w EXCEPT !.encCalls = @ + 1], "encode", content)
             ELSE w
        r == WriteBody(ParseEncoding(w.acceptEncoding), content)
    IN  IF w.enableGzip /\ r.applied
        THEN LET b == SetHeader(a, HeaderContentEncoding, r.name)
                 c == WriteHeader(b, s)
             IN  ioCopy(c, r.buf, t)
        ELSE SendPlain(a, s, content, t)

\* Send past its committed check, negotiating even when the caller has set
\* Content-Encoding.
SendUncommitted_AlwaysNegotiates(w, s, content, t) ==
    SendNegotiated(w, s, content, t)

SendUncommitted(w, s, content, t) ==
    IF HeaderGet(w.header, HeaderContentEncoding) = ""
    THEN SendNegotiated(w, s, content, t)
    ELSE Write(WriteHeader(w, s), content, t)

\* Send without its committed check.
Send_NoGuard(w, s, content, t) == SendUncommitted(w, s, content, t)

\* Send that looks at committed only after it has prepared the headers.
Send_LateGuard(w, s, content, t) ==
    IF w.committed
    THEN LET a == IF HeaderGet(w.header, HeaderContentLength) = ""
                  THEN SetHeader(w, HeaderContentLength, Itoa(Len(content)))
                  ELSE w
         IN  [a EXCEPT !.err = ErrCommitted]
    ELSE SendUncommitted(w, s, content, t)

Send(w, s, content, t) ==
    IF w.committed
    THEN [w EXCEPT !.err = ErrCommitted]
    ELSE SendUncommitted(w, s, content, t)

\* -------------------------------------------------------------- serializers
\* json.Marshal / json.MarshalIndent(data, "", "  ") as [err, b].
jsonMarshal(data, indent) ==
    CASE data = "struct" ->
           [err |-> ErrNone,
            b |-> IF indent THEN "{\n  \"A\": 1\n}" ELSE "{\"A\":1}"]
      [] data = "map" ->
           [err |-> ErrNone,
            b |-> IF indent THEN "{\n  \"a\": 1\n}" ELSE "{\"a\":1}"]
      [] OTHER -> [err |-> ErrMarshal, b |-> ""]

\* xml.Marshal / xml.MarshalIndent(data, "", "  ") as [err, b].
xmlMarshal(data, indent) ==
    CASE data = "struct" ->
           [err |-> ErrNone,
            b |-> IF indent THEN "<T>\n  <A>1</A>\n</T>" ELSE "<T><A>1</A></T>"]
      [] OTHER -> [err |-> ErrMarshal, b |-> ""]

\* template.JSEscapeString, on the characters the callbacks here are made of.
JSEscapeChar(c) ==
    CASE c = "'" -> "\\'"
      [] c = "\"" -> "\\\""
      [] c = "\\" -> "\\\\"
      [] OTHER -> c

RECURSIVE JSEscapeString(_)
JSEscapeString(str) ==
    IF Len(str) = 0 THEN ""
    ELSE JSEscapeChar(SubSeq(str, 1, 1)) \o JSEscapeString(SubSeq(str, 2, Len(str)))

JSONBlob(w, s, b, t) ==
    Send(SetHeader(w, HeaderContentType, MIMEApplicationJSONCharsetUTF8),
         s, b, t)

JSON(w, mode, s, data, t) ==
    LET m == jsonMarshal(data, mode # RUNMODE_PROD)
    IN  IF m.err # ErrNone THEN [w EXCEPT !.err = m.err]
        ELSE JSONBlob(w, s, m.b, t)

\* JSONP setting its Content-Type before it marshals.
JSONP_HeaderFirst(w, mode, s, callback, data, t) ==
    LET m == jsonMarshal(data, mode # RUNMODE_PROD)
        a == SetHeader(w, HeaderContentType, MIMEApplicationJavaScriptCharsetUTF8)
        cb == JSEscapeString(callback)
    IN  IF m.err # ErrNone THEN [a EXCEPT !.err = m.err]
        ELSE Send(a, s, " if(window." \o cb \o ")" \o cb \o "(" \o m.b
                        \o ");\r\n", t)

\* JSONP putting the callback into the payload as it was passed in.
JSONP_RawCallback(w, mode, s, callback, data, t) ==
    LET m == jsonMarshal(data, mode # RUNMODE_PROD)
    IN  IF m.err # ErrNone THEN [w EXCEPT !.err = m.err]
        ELSE LET a == SetHeader(w, HeaderContentType,
                                MIMEApplicationJavaScriptCharsetUTF8)
             IN  Send(a, s, " if(window." \o callback \o ")" \o callback \o "("
                            \o m.b \o ");\r\n", t)

JSONP(w, mode, s, callback, data, t) ==
    LET m == jsonMarshal(data, mode # RUNMODE_PROD)
    IN  IF m.err # ErrNone THEN [w EXCEPT !.err = m.err]
        ELSE LET a == SetHeader(w, HeaderContentType,
                                MIMEApplicationJavaScriptCharsetUTF8)
                 cb == JSEscapeString(callback)
             IN  Send(a, s, " if(window." \o cb \o ")" \o cb \o "(" \o m.b
                            \o ");\r\n", t)

XMLBlob(w, s, b, t) ==
    Send(SetHeader(w, HeaderContentType, MIMEApplicationXMLCharsetUTF8),
         s, xmlHeader \o b, t)

XML(w, mode, s, data, t) ==
    LET m == xmlMarshal(data, mode # RUNMODE_PROD)
    IN  IF m.err # ErrNone THEN [w EXCEPT !.err = m.err]
        ELSE XMLBlob(w, s, m.b, t)

\* ctx.AcceptJSON() and ctx.AcceptXML() are what the request's Accept header
\* says; JSON is served unless only XML is acceptable.
JSONOrXML(w, mode, s, data, t, acceptJSON, acceptXML) ==
    IF acceptJSON \/ ~acceptXML THEN JSON(w, mode, s, data, t)
    ELSE XML(w, mode, s, data, t)

\* ------------------------------------------------------ Context.SetCookie
\* A value passed through interface{}: its dynamic type and, by type, its
\* integer, string or boolean value.
GoNil == [t |-> "nil", i |-> 0, s |-> "", b |-> FALSE]
GoInt(n) == [t |-> "int", i |-> n, s |-> "", b |-> FALSE]
GoInt64(n) == [t |-> "int64", i |-> n, s |-> "", b |-> FALSE]
GoString(x) == [t |-> "string", i |-> 0, s |-> x, b |-> FALSE]
GoBool(x) == [t |-> "bool", i |-> 0, s |-> "", b |-> x]

\* strings.NewReplacer("\n", "-", "\r", "-") and
\* strings.NewReplacer("\n", " ", "\r", " ", ";", " "), one byte at a time.
cookieNameSanitizer(c) == IF c \in {"\n", "\r"} THEN "-" ELSE c
\* cookieValueSanitizer without the replacement of ';'.
cookieValueSanitizer_KeepsSemicolon(c) == IF c \in {"\n", "\r"} THEN " " ELSE c
cookieValueSanitizer(c) == IF c \in {"\n", "\r", ";"} THEN " " ELSE c

RECURSIVE sanitizeName(_)
sanitizeName(n) ==
    IF n = "" THEN ""
    ELSE cookieNameSanitizer(SubSeq(n, 1, 1)) \o sanitizeName(SubSeq(n, 2, Len(n)))

RECURSIVE sanitizeValue(_)
sanitizeValue(v) ==
    IF v = "" THEN ""
    ELSE cookieValueSanitizer(SubSeq(v, 1, 1)) \o sanitizeValue(SubSeq(v, 2, Len(v)))

\* t.UTC().Format(time.RFC1123) for a time t seconds into the first minute
\* of the Unix epoch.
FormatRFC1123(t) ==
    "Thu, 01 Jan 1970 00:00:" \o (IF t < 10 THEN "0" ELSE "") \o Itoa(t) \o " UTC"

\* The type switch on others[0].
cookieMaxAge(others) ==
    IF Len(others) > 0 /\ others[1].t \in {"int", "int32", "int64"}
    THEN others[1].i ELSE 0

cookieExpires(others, now) ==
    LET maxAge == cookieMaxAge(others)
    IN  IF Len(others) > 0 /\ maxAge > 0
        THEN "; Expires=" \o FormatRFC1123(now + maxAge)
               \o "; Max-Age=" \o Itoa(maxAge)
        ELSE IF Len(others) > 0 /\ maxAge < 0 THEN "; Max-Age=0"
        ELSE ""

\* cookiePath with the default also given for a path argument that is
\* passed but unusable.
cookiePath_DefaultsWhenSkipped(others) ==
    IF Len(others) > 1 /\ others[2].t = "string" /\ Len(others[2].s) > 0
    THEN "; Path=" \o sanitizeValue(others[2].s) ELSE "; Path=/"

cookiePath(others) ==
    IF Len(others) > 1
    THEN IF others[2].t = "string" /\ Len(others[2].s) > 0
         THEN "; Path=" \o sanitizeValue(others[2].s) ELSE ""
    ELSE "; Path=/"

cookieDomain(others) ==
    IF Len(others) > 2 /\ others[3].t = "string" /\ Len(others[3].s) > 0
    THEN "; Domain=" \o sanitizeValue(others[3].s) ELSE ""

\* cookieSecure taking only a boolean true for a request to set Secure.
cookieSecure_BoolOnly(others) ==
    IF Len(others) > 3 /\ others[4].t = "bool" /\ others[4].b
    THEN "; Secure" ELSE ""

cookieSecure(others) ==
    LET secure == IF others[4].t = "bool" THEN others[4].b
                  ELSE others[4].t # "nil"
    IN  IF Len(others) > 3 /\ secure THEN "; Secure" ELSE ""

cookieHttpOnly(others) ==
    LET httponly == Len(others) > 4 /\ others[5].t = "bool" /\ others[5].b
    IN  IF httponly THEN "; HttpOnly" ELSE ""

\* The string Context.SetCookie builds in its buffer b.
cookieLine(name, value, others, now) ==
    sanitizeName(name) \o "=" \o sanitizeValue(value)
      \o cookieExpires(others, now) \o cookiePath(others)
      \o cookieDomain(others) \o cookieSecure(others) \o cookieHttpOnly(others)

ContextSetCookie(w, name, value, others, now) ==
    Event([w EXCEPT !.header =
               HeaderAdd(@, HeaderSetCookie, cookieLine(name, value, others, now))],
          "add", HeaderSetCookie)

MaxAgeArgs == {GoInt(0), GoInt(3), GoInt(-1), GoInt64(2), GoNil, GoString("3")}
PathArgs == {GoNil, GoString(""), GoString("/app"), GoInt(0)}
DomainArgs == {GoNil, GoString(""), GoString("ex.com")}
SecureArgs == {GoNil, GoBool(TRUE), GoBool(FALSE), GoInt(0), GoString("")}
HttpOnlyArgs == {GoNil, GoBool(TRUE), GoBool(FALSE), GoInt(1)}

\* The variadic others ...interface{}: any number of leading positions.
OthersArgs ==
    {<<>>}
      \cup {<<a>> : a \in MaxAgeArgs}
      \cup {<<a, p>> : a \in MaxAgeArgs, p \in PathArgs}
      \cup {<<a, p, d>> : a \in MaxAgeArgs, p \in PathArgs, d \in DomainArgs}
      \cup {<<a, p, d, x>> : a \in MaxAgeArgs, p \in PathArgs, d \in DomainArgs,
                             x \in SecureArgs}
      \cup {<<a, p, d, x, h>> : a \in MaxAgeArgs, p \in PathArgs,
                                d \in DomainArgs, x \in SecureArgs,
                                h \in HttpOnlyArgs}

\* ------------------------------------------------------------ Context.File
\* ctx.frame.fileServerManager.ServeFile(ctx, file): the collaborator that
\* streams the file.
ServeFile(w, file) == Event(w, "servefile", file)

\* The headers File sets after Content-Disposition.
FileTail(w, file) ==
    LET a == SetHeader(w, HeaderContentTransferEncoding, "binary")
        b == SetHeader(a, HeaderExpires, "0")
        c == SetHeader(b, HeaderCacheControl, "must-revalidate")
        d == SetHeader(c, HeaderPragma, "public")
    IN  ServeFile(d, file)

FileHead(w) ==
    SetHeader(SetHeader(w, HeaderContentDescription, "File Transfer"),
              HeaderContentType, MIMEOctetStream)

\* File taking the first display name even when it is empty.
File_AnyFirstName(w, file, filename) ==
    FileTail(SetHeader(FileHead(w), HeaderContentDisposition,
                       "attachment; filename="
                         \o (IF Len(filename) > 0 THEN filename[1]
                             ELSE filepathBase(file))),
             file)

File(w, file, filename) ==
    LET a == FileHead(w)
        b == IF Len(filename) > 0 /\ filename[1] # ""
             THEN SetHeader(a, HeaderContentDisposition,
                            "attachment; filename=" \o filename[1])
             ELSE SetHeader(a, HeaderContentDisposition,
                            "attachment; filename=" \o filepathBase(file))
    IN  FileTail(b, file)

\* ------------------------------------------------- status classification
IsCachable(w) == (w.status >= 200 /\ w.status < 300) \/ w.status = 304
IsEmpty(w) == w.status = 201 \/ w.status = 204 \/ w.status = 304
IsOk(w) == w.status = 200
IsSuccessful(w) == w.status >= 200 /\ w.status < 300
IsRedirect(w) ==
    w.status = 301 \/ w.status = 302 \/ w.status = 303 \/ w.status = 307
IsForbidden(w) == w.status = 403
IsNotFound(w) == w.status = 404
IsClientError(w) == w.status >= 400 /\ w.status < 500
IsServerError(w) == w.status >= 500 /\ w.status < 600

\* What the helper named h returns.
HelperResult(h, w) ==
    CASE h = "IsCachable" -> IsCachable(w)
      [] h = "IsEmpty" -> IsEmpty(w)
      [] h = "IsOk" -> IsOk(w)
      [] h = "IsSuccessful" -> IsSuccessful(w)
      [] h = "IsRedirect" -> IsRedirect(w)
      [] h = "IsForbidden" -> IsForbidden(w)
      [] h = "IsNotFound" -> IsNotFound(w)
      [] h = "IsClientError" -> IsClientError(w)
      [] h = "IsServerError" -> IsServerError(w)

\* ------------------------------------------------------ Context.String, HTML
\* The operands left over after the format is used up, as fmt reports them.
RECURSIVE sprintfExtra(_, _)
sprintfExtra(args, k) ==
    IF k > Len(args) THEN ""
    ELSE (IF k < Len(args) THEN "string=" \o args[k] \o ", "
          ELSE "string=" \o args[k]) \o sprintfExtra(args, k + 1)

\* fmt.Sprintf(format, args...) for string operands and verbs without flags:
\* the format from byte i on, with the operands from the k-th on.
RECURSIVE sprintfFrom(_, _, _, _)
sprintfFrom(format, i, args, k) ==
    IF i > Len(format)
    THEN IF k <= Len(args) THEN "%!(EXTRA " \o sprintfExtra(args, k) \o ")"
         ELSE ""
    ELSE IF CharAt(format, i) # "%"
    THEN CharAt(format, i) \o sprintfFrom(format, i + 1, args, k)
    ELSE IF i = Len(format) THEN "%!(NOVERB)" \o sprintfFrom(format, i + 1, args, k)
    ELSE LET verb == CharAt(format, i + 1)
         IN  IF verb = "%" THEN "%" \o sprintfFrom(format, i + 2, args, k)
             ELSE IF k > Len(args)
             THEN "%!" \o verb \o "(MISSING)" \o sprintfFrom(format, i + 2, args, k)
             ELSE IF verb \in {"s", "v"}
             THEN args[k] \o sprintfFrom(format, i + 2, args, k + 1)
             ELSE "%!" \o verb \o "(string=" \o args[k] \o ")"
                    \o sprintfFrom(format, i + 2, args, k + 1)

Sprintf(format, args) == sprintfFrom(format, 1, args, 1)

String(w, s, format, args, t) ==
    LET a == SetHeader(w, HeaderContentType, MIMETextPlainCharsetUTF8)
    IN  IF Len(args) = 0 THEN Send(a, s, format, t)
        ELSE Send(a, s, Sprintf(format, args), t)

\* The slice HTML hands to Send shares the bytes of the string; Send only
\* reads it.
HTML(w, s, html, t) ==
    Send(SetHeader(w, HeaderContentType, MIMETextHTMLCharsetUTF8), s, html, t)

\* ----------------------------------------------------------- Context.Error
\* ctx.frame.errorFunc(ctx, errStr, status): the configured error renderer.
errorFunc(w, errStr, s) == Event(w, "errorFunc", Itoa(s) \o " " \o errStr)

\* ctx.Stop(): no further handler of the chain runs for this request.
Stop(w) == Event([w EXCEPT !.stopped = TRUE], "stop", "")

Error(w, s, errStr) == Stop(errorFunc(w, errStr, s))

\* -------------------------------------------------- Context.SetContentType
\* mime.TypeByExtension with the built-in table.
TypeByExtension(ext) ==
    CASE ext = ".html" -> "text/html; charset=utf-8"
      [] ext = ".json" -> "application/json"
      [] ext = ".css" -> "text/css; charset=utf-8"
      [] OTHER -> ""

SetContentType(w, ext) ==
    LET e == IF Len(ext) >= 1 /\ CharAt(ext, 1) = "." THEN ext ELSE "." \o ext
        ctype == TypeByExtension(e)
    IN  IF ctype # "" THEN SetHeader(w, HeaderContentType, ctype) ELSE w

\* ------------------------------------------------- Context.SetSecureCookie
\* base64.URLEncoding.EncodeToString([]byte(value)).
base64URLEncode(value) ==
    CASE value = "v" -> "dg=="
      [] value = "hello" -> "aGVsbG8="

\* strconv.FormatInt(t.UnixNano(), 10) for a time now seconds into the epoch.
UnixNano(now) == IF now = 0 THEN "0" ELSE Itoa(now) \o "000000000"

\* The hex HMAC-SHA1 of message under secret.
hmacSHA1Hex(secret, message) ==
    CASE secret = "k" /\ message = "dg==0"
           -> "51630876b7d9051e5e7b3fd3402ecbf9992d0963"
      [] secret = "k" /\ message = "dg==30000000000"
           -> "85aa92e6babd768f7c5b8d7cf59113d28ee2a19a"
      [] secret = "k" /\ message = "aGVsbG8=0"
           -> "c1457305798817fdd2f2ba2e3ff5d36d240fc3b3"
      [] secret = "k" /\ message = "aGVsbG8=30000000000"
           -> "addc464174d334fcff007fddddff3957eab9b33a"
      [] secret = "k2" /\ message = "dg==0"
           -> "24a20d79516d9b9d96937dc58d5b5d250635e67b"
      [] secret = "k2" /\ message = "dg==30000000000"
           -> "3ff124a6edab6c6e80a58fecdc5ed0fc5485db65"
      [] secret = "k2" /\ message = "aGVsbG8=0"
           -> "1d2659170f51a201c144d8f6b049523c064824b2"
      [] secret = "k2" /\ message = "aGVsbG8=30000000000"
           -> "97cdf6a9eb2f4357264146bde62e8d441891aa48"

SetSecureCookie(w, secret, name, value, others, now) ==
    LET vs == base64URLEncode(value)
        timestamp == UnixNano(now)
        sig == hmacSHA1Hex(secret, vs \o timestamp)
        cookie == vs \o "|" \o timestamp \o "|" \o sig
    IN  ContextSetCookie(w, name, cookie, others, now)

\* ------------------------------------------------------------------ actions
\* The call just made: its name and arguments, the state it started from,
\* what it did and what it returned.
Call(op, s, content, w0, w1) ==
    [op |-> op, status |-> s, content |-> content, pre |-> w0,
     ev |-> w1.ev, err |-> w1.err]

NoCall == [op |-> "new", status |-> 0, content |-> "",
           pre |-> [committed |-> FALSE], ev |-> <<>>, err |-> ErrNone]

\* The state after a call c that turned the world into w.
Step(w, c) ==
    /\ status' = w.status
    /\ size' = w.size
    /\ committed' = w.committed
    /\ header' = w.header
    /\ wroteHeader' = w.wroteHeader
    /\ wireStatus' = w.wireStatus
    /\ wireHeader' = w.wireHeader
    /\ wireBody' = w.wireBody
    /\ whCalls' = w.whCalls
    /\ hookCalls' = w.hookCalls
    /\ warnings' = w.warnings
    /\ encCalls' = w.encCalls
    /\ stopped' = w.stopped
    /\ last' = c
    /\ prev' = [op |-> last.op, status |-> last.status, content |-> last.content,
                err |-> last.err, preCommitted |-> last.pre.committed]
    /\ steps' = steps + 1
    /\ UNCHANGED <<enableGzip, acceptEncoding, caps>>

Becomes(w, op, s, content) == Step(w, Call(op, s, content, World, w))

\* A call whose further arguments args are kept with it.
BecomesWith(w, op, s, content, args) ==
    Step(w, [args |-> args] @@ Call(op, s, content, World, w))

\* newResponse(ctx, w) on a new writer.
Init ==
    /\ status = 0
    /\ size = 0
    /\ committed = FALSE
    /\ header = EmptyHeader
    /\ wroteHeader = FALSE
    /\ wireStatus = 0
    /\ wireHeader = EmptyHeader
    /\ wireBody = ""
    /\ whCalls = <<>>
    /\ hookCalls = 0
    /\ warnings = 0
    /\ encCalls = 0
    /\ enableGzip \in BOOLEAN
    /\ acceptEncoding \in AcceptEncodings
    /\ caps \in WriterKinds
    /\ stopped = FALSE
    /\ last = NoCall
    /\ prev = [op |-> "new", status |-> 0, content |-> "", err |-> ErrNone,
               preCommitted |-> FALSE]
    /\ steps = 0

CallWriteHeader ==
    /\ steps < MaxSteps
    /\ \E s \in Statuses : Becomes(WriteHeader(World, s), "WriteHeader", s, "")

CallWrite ==
    /\ steps < MaxSteps
    /\ \E b \in Contents, t \in WriterOutcomes :
          Becomes(Write(World, b, t), "Write", 0, b)

CallNoContent ==
    /\ steps < MaxSteps
    /\ \E s \in Statuses : Becomes(NoContent(World, s), "NoContent", s, "")

CallSend ==
    /\ steps < MaxSteps
    /\ \E s \in Statuses, c \in Contents, t \in WriterOutcomes :
          Becomes(Send(World, s, c, t), "Send", s, c)

\* Context.SetHeader(key, val), here with the two headers Send looks at.
CallSetHeader ==
    /\ steps < MaxSteps
    /\ \E kv \in {<<HeaderContentEncoding, "br">>, <<HeaderContentLength, "99">>,
                   <<HeaderContentType, "text/css">>} :
          Becomes(SetHeader(World, kv[1], kv[2]), "SetHeader", 0, kv[1])

CallReset ==
    /\ steps < MaxSteps
    /\ Becomes(reset(World), "reset", 0, "")

CallFlush ==
    /\ steps < MaxSteps
    /\ Becomes(Flush(World), "Flush", 0, "")

CallAddCookie ==
    /\ steps < MaxSteps
    /\ \E c \in Cookies :
          Becomes(AddCookie(World, c), "AddCookie", 0, CookieString(c))

CallSetCookie ==
    /\ steps < MaxSteps
    /\ \E c \in Cookies :
          Becomes(SetCookie(World, c), "SetCookie", 0, CookieString(c))

CallDelCookie ==
    /\ steps < MaxSteps
    /\ Becomes(DelCookie(World), "DelCookie", 0, "")

CallContextSetCookie ==
    /\ steps < MaxSteps
    /\ \E others \in {<<>>, <<GoInt(-1), GoString("/app")>>} :
          BecomesWith(ContextSetCookie(World, "sid", "v", others, 0),
                      "Context.SetCookie", 0, "v",
                      [name |-> "sid", others |-> others, now |-> 0])

CallHijack ==
    /\ steps < MaxSteps
    /\ Becomes(Hijack(World), "Hijack", 0, "")

CallCloseNotify ==
    /\ steps < MaxSteps
    /\ Becomes(CloseNotify(World), "CloseNotify", 0, "")

CallSetContentType ==
    /\ steps < MaxSteps
    /\ \E ext \in {"html", ".json", "zzz"} :
          Becomes(SetContentType(World, ext), "SetContentType", 0, ext)

CallSetSecureCookie ==
    /\ steps < MaxSteps
    /\ BecomesWith(SetSecureCookie(World, "k", "sid", "v", <<>>, 30),
                   "SetSecureCookie", 0, "v",
                   [secret |-> "k", name |-> "sid", others |-> <<>>, now |-> 30])

CallString ==
    /\ steps < MaxSteps
    /\ \E s \in Statuses, f \in FormatCalls, t \in WriterOutcomes :
          BecomesWith(String(World, s, f[1], f[2], t), "String", s, f[1],
                      [args |-> f[2]])

CallHTML ==
    /\ steps < MaxSteps
    /\ \E s \in Statuses, html \in Contents, t \in WriterOutcomes :
          Becomes(HTML(World, s, html, t), "HTML", s, html)

CallError ==
    /\ steps < MaxSteps
    /\ \E s \in Statuses :
          Becomes(Error(World, s, "x"), "Error", s, "x")

CallJSON ==
    /\ steps < MaxSteps
    /\ \E m \in RunModes, s \in Statuses, d \in Datas, t \in WriterOutcomes :
          Becomes(JSON(World, m, s, d, t), "JSON", s, d)

CallJSONP ==
    /\ steps < MaxSteps
    /\ \E m \in RunModes, s \in Statuses, cb \in Callbacks, d \in Datas,
          t \in WriterOutcomes :
          BecomesWith(JSONP(World, m, s, cb, d, t), "JSONP", s, d,
                      [mode |-> m, callback |-> cb])

CallXML ==
    /\ steps < MaxSteps
    /\ \E m \in RunModes, s \in Statuses, d \in Datas, t \in WriterOutcomes :
          Becomes(XML(World, m, s, d, t), "XML", s, d)

Next ==
    \/ CallWriteHeader
    \/ CallWrite
    \/ CallNoContent
    \/ CallSend
    \/ CallSetHeader
    \/ CallReset
    \/ CallFlush
    \/ CallAddCookie
    \/ CallSetCookie
    \/ CallDelCookie
    \/ CallContextSetCookie
    \/ CallHijack
    \/ CallCloseNotify
    \/ CallSetSecureCookie

Spec == Init /\ [][Next]_vars

\* The calls that choose a Content-Type and send a body (the serializers,
\* String, HTML, SetContentType) and Error, each followed or preceded by at
\* most one other call.
SerJSON == steps < MaxSerSteps /\ CallJSON
SerJSONP == steps < MaxSerSteps /\ CallJSONP
SerXML == steps < MaxSerSteps /\ CallXML
SerSend == steps < MaxSerSteps /\ CallSend
SerWriteHeader == steps < MaxSerSteps /\ CallWriteHeader
SerString == steps < MaxSerSteps /\ CallString
SerHTML == steps < MaxSerSteps /\ CallHTML
SerError == steps < MaxSerSteps /\ CallError
SerSetContentType == steps < MaxSerSteps /\ CallSetContentType

\* The blob senders and the Accept-driven choice between JSON and XML, each
\* followed or preceded by at most one other call.
BlobJSON ==
    /\ steps < MaxSerSteps
    /\ \E s \in Statuses, b \in {"{\"A\":1}", ""}, t \in WriterOutcomes :
          Becomes(JSONBlob(World, s, b, t), "JSONBlob", s, b)

BlobXML ==
    /\ steps < MaxSerSteps
    /\ \E s \in Statuses, b \in {"<T><A>1</A></T>", ""}, t \in WriterOutcomes :
          Becomes(XMLBlob(World, s, b, t), "XMLBlob", s, b)

BlobJSONOrXML ==
    /\ steps < MaxSerSteps
    /\ \E m \in RunModes, s \in Statuses, d \in Datas, t \in WriterOutcomes,
          aj \in BOOLEAN, ax \in BOOLEAN :
          BecomesWith(JSONOrXML(World, m, s, d, t, aj, ax), "JSONOrXML", s, d,
                      [mode |-> m, acceptJSON |-> aj, acceptXML |-> ax])

NextBlob ==
    \/ BlobJSON
    \/ BlobXML
    \/ BlobJSONOrXML
    \/ SerWriteHeader

SpecBlob == Init /\ [][NextBlob]_vars

NextSer ==
    \/ SerJSON
    \/ SerJSONP
    \/ SerXML
    \/ SerSend
    \/ SerWriteHeader
    \/ SerString
    \/ SerHTML
    \/ SerError
    \/ SerSetContentType

SpecSer == Init /\ [][NextSer]_vars

\* One call on a new response, over all of its arguments.
ArgSetCookie ==
    /\ steps = 0
    /\ \E name \in CookieNames, value \in CookieValues, others \in OthersArgs,
          now \in Nows :
          BecomesWith(ContextSetCookie(World, name, value, others, now),
                      "Context.SetCookie", 0, value,
                      [name |-> name, others |-> others, now |-> now])

ArgFile ==
    /\ steps = 0
    /\ \E file \in FilePaths, filename \in FileNames :
          BecomesWith(File(World, file, filename), "File", 0, file,
                      [filename |-> filename])

ArgSetSecureCookie ==
    /\ steps = 0
    /\ \E secret \in {"k", "k2"}, value \in {"v", "hello"}, now \in Nows,
          others \in {<<>>, <<GoInt(3)>>, <<GoNil, GoString("/app")>>} :
          BecomesWith(SetSecureCookie(World, secret, "sid", value, others, now),
                      "SetSecureCookie", 0, value,
                      [secret |-> secret, name |-> "sid", others |-> others,
                       now |-> now])

NextArgs ==
    \/ ArgSetCookie
    \/ ArgFile
    \/ ArgSetSecureCookie

SpecArgs == Init /\ [][NextArgs]_vars

\* The classification helpers, asked before and after a commit with any of
\* the statuses they tell apart.
HelperWriteHeader ==
    /\ steps < MaxHelperSteps
    /\ \E s \in HelperStatuses :
          Becomes(WriteHeader(World, s), "WriteHeader", s, "")

HelperReset ==
    /\ steps < MaxHelperSteps
    /\ Becomes(reset(World), "reset", 0, "")

HelperCall ==
    /\ steps < MaxHelperSteps
    /\ \E h \in Helpers :
          BecomesWith(World, h, 0, "", [result |-> HelperResult(h, World)])

NextHelpers ==
    \/ HelperWriteHeader
    \/ HelperReset
    \/ HelperCall

SpecHelpers == Init /\ [][NextHelpers]_vars

\* =================================================================== claims
\* What a call leaves alone, read off the state it started from.
SameResponse == /\ status = last.pre.status
                /\ size = last.pre.size
                /\ committed = last.pre.committed
SameWire == /\ whCalls = last.pre.whCalls
            /\ wroteHeader = last.pre.wroteHeader
            /\ wireStatus = last.pre.wireStatus
            /\ wireHeader = last.pre.wireHeader
            /\ wireBody = last.pre.wireBody
CommitCalls == {"WriteHeader", "Send"}

\* C1: of two consecutive WriteHeader/Send calls with no reset in between,
\* the second hands the writer nothing (no status line, no body bytes) and is
\* reported by a logged warning (WriteHeader) or a returned error (Send);
\* on a response that was uncommitted before the first, the writer has then
\* received exactly one WriteHeader call, with the first call's status.
C1_SecondCommitIsNoOp ==
    (prev.op \in CommitCalls /\ last.op \in CommitCalls) =>
        /\ SameWire
        /\ last.op = "WriteHeader" =>
              warnings = last.pre.warnings + 1 /\ last.ev = <<<<"warn", "">>>>
        /\ last.op = "Send" => last.err = ErrCommitted /\ last.ev = <<>>
        /\ ~prev.preCommitted => whCalls = <<prev.status>>

C1_Witness ==
    /\ prev.op = "Send" /\ ~prev.preCommitted /\ prev.status = StatusNotFound
    /\ last.op = "WriteHeader" /\ last.status = StatusOK
    /\ warnings = 1

\* C2: Send on a committed Response returns a non-nil error and has no
\* effect: nothing reaches the writer, the header map is as before, the
\* encoder is not asked, and status, size and committed keep their values.
C2_SendOnCommitted ==
    (last.op = "Send" /\ last.pre.committed) =>
        /\ last.err # ErrNone
        /\ last.ev = <<>>
        /\ SameWire
        /\ header = last.pre.header
        /\ encCalls = last.pre.encCalls
        /\ hookCalls = last.pre.hookCalls
        /\ SameResponse

C2_Witness ==
    /\ last.op = "Send" /\ last.pre.committed /\ last.err = ErrCommitted
    /\ enableGzip /\ acceptEncoding = "gzip"
    /\ HeaderGet(header, HeaderContentLength) = ""
    /\ last.content = "abc"

\* C3: committed is true whenever the status line and headers have gone to
\* the writer, also when a first Write sent them implicitly; so a Send or
\* WriteHeader after such a Write is rejected and hands the writer no second
\* status line.
C3_CommittedWhenHeadersSent ==
    /\ wroteHeader => committed
    /\ (last.op \in CommitCalls /\ last.pre.wroteHeader) =>
          /\ whCalls = last.pre.whCalls
          /\ last.op = "Send" => last.err = ErrCommitted
          /\ last.op = "WriteHeader" => warnings = last.pre.warnings + 1

\* C4: once committed is true, no call other than reset makes it false;
\* reset does.
C4_CommittedIrreversible ==
    /\ (last.op \notin {"new", "reset"} /\ last.pre.committed) => committed
    /\ last.op = "reset" => ~committed

C4_Witness ==
    /\ prev.op = "WriteHeader" /\ prev.preCommitted
    /\ last.op = "Write" /\ last.pre.committed
    /\ committed

\* The Send that has just run took the compression path.
CompressedSend ==
    /\ last.op = "Send"
    /\ ~last.pre.committed
    /\ HeaderGet(last.pre.header, HeaderContentEncoding) = ""
    /\ enableGzip
    /\ WriteBody(ParseEncoding(acceptEncoding), last.content).applied

\* The Send that has just run wrote the content uncompressed.
UncompressedSend ==
    /\ last.op = "Send"
    /\ ~last.pre.committed
    /\ ~CompressedSend

\* C5: when Send applies a negotiated compression, the headers that go out
\* carry Content-Encoding = the negotiated name and no Content-Length,
\* whatever headers the caller had set, and the bytes written are the
\* compressed buffer.
C5_EncodingExcludesLength ==
    (CompressedSend /\ ~last.pre.wroteHeader) =>
        LET r == WriteBody(ParseEncoding(acceptEncoding), last.content)
        IN  /\ HeaderGet(wireHeader, HeaderContentEncoding) = r.name
            /\ HeaderGet(wireHeader, HeaderContentLength) = ""
            /\ last.ev[Len(last.ev)] = <<"body", r.buf>>

\* C6: Send on an uncommitted Response whose Content-Encoding is already set
\* never asks the encoder, whatever Accept-Encoding and the compression flag
\* are; it leaves the header map as it is, commits with the given status
\* (which is what goes out, unless the writer had sent its headers before)
\* and writes the content bytes as given.
C6_PresetEncodingSkipsNegotiation ==
    (/\ last.op = "Send"
     /\ ~last.pre.committed
     /\ HeaderGet(last.pre.header, HeaderContentEncoding) # "") =>
        /\ encCalls = last.pre.encCalls
        /\ header = last.pre.header
        /\ committed /\ status = last.status
        /\ whCalls = Append(last.pre.whCalls, last.status)
        /\ last.ev = << <<"hook", "">>, <<"status", Itoa(last.status)>>,
                        <<"committed", "">>, <<"body", last.content>> >>
        /\ ~last.pre.wroteHeader =>
              wireStatus = last.status /\ wireHeader = last.pre.header

C6_Witness ==
    /\ last.op = "Send" /\ ~last.pre.committed
    /\ HeaderGet(last.pre.header, HeaderContentEncoding) = "br"
    /\ enableGzip /\ acceptEncoding = "gzip"
    /\ last.content = "abc" /\ wireBody = "abc"
    /\ wireStatus = StatusNotFound

\* C7 as claimed: whenever Send writes the content uncompressed (compression
\* disabled, no usable encoding, or Content-Encoding preset) and
\* Content-Length is unset on entry, the headers it commits carry
\* Content-Length = the decimal length of content; a Content-Length set on
\* entry is left as it is.
C7_LengthSetWheneverUncompressed ==
    UncompressedSend =>
        /\ HeaderGet(last.pre.header, HeaderContentLength) = "" =>
              header[HeaderContentLength] = <<Itoa(Len(last.content))>>
        /\ HeaderGet(last.pre.header, HeaderContentLength) # "" =>
              header[HeaderContentLength] = last.pre.header[HeaderContentLength]

\* C7, amended: the Content-Length is computed only when Content-Encoding is
\* unset on entry as well. With neither header set and no compression
\* applied, the header map Send commits carries Content-Length = the decimal
\* length of content (and that is what goes out, unless the writer had sent
\* its headers before); with Content-Encoding preset by the caller, Send
\* sets no Content-Length; a Content-Length set on entry is left as it is.
C7_LengthSetUnlessEncodingPreset ==
    UncompressedSend =>
        LET hadLength == HeaderGet(last.pre.header, HeaderContentLength) # ""
            hadEncoding == HeaderGet(last.pre.header, HeaderContentEncoding) # ""
        IN  /\ (~hadLength /\ ~hadEncoding) =>
                  /\ header[HeaderContentLength] = <<Itoa(Len(last.content))>>
                  /\ ~last.pre.wroteHeader =>
                        wireHeader[HeaderContentLength] = <<Itoa(Len(last.content))>>
            /\ (~hadLength /\ hadEncoding) => header[HeaderContentLength] = <<>>
            /\ hadLength =>
                  header[HeaderContentLength] = last.pre.header[HeaderContentLength]

C7_Witness ==
    /\ UncompressedSend
    /\ last.pre.header = EmptyHeader /\ ~last.pre.wroteHeader
    /\ last.content = "0123456789"
    /\ wireHeader[HeaderContentLength] = <<"10">>

Serializers == {"JSON", "JSONP", "XML"}

\* The serializer that has just run was given a value it cannot marshal.
MarshalFailed ==
    /\ last.op \in Serializers
    /\ IF last.op = "XML"
       THEN xmlMarshal(last.content, TRUE).err # ErrNone
       ELSE jsonMarshal(last.content, TRUE).err # ErrNone

\* C8: when marshalling fails in JSON, JSONP or XML the error is returned
\* and the response is as before the call: committed, status, size and every
\* header unchanged, nothing handed to the writer; a Send or serializer call
\* that follows on the still uncommitted response commits normally.
C8_FailedMarshalLeavesResponse ==
    /\ MarshalFailed =>
          /\ last.err = ErrMarshal
          /\ last.ev = <<>>
          /\ SameResponse
          /\ SameWire
          /\ header = last.pre.header
          /\ hookCalls = last.pre.hookCalls
          /\ encCalls = last.pre.encCalls
    /\ (/\ prev.op \in Serializers /\ prev.err = ErrMarshal
        /\ ~prev.preCommitted
        /\ last.op \in Serializers \cup {"Send"}
        /\ ~MarshalFailed) =>
          /\ last.err \in {ErrNone, ErrTransport}
          /\ committed
          /\ status = last.status
          /\ whCalls = <<last.status>>
          /\ wireStatus = last.status
          /\ HeaderGet(wireHeader, HeaderContentType) =
                HeaderGet(header, HeaderContentType)

C8_Witness ==
    /\ prev.op = "JSONP" /\ prev.err = ErrMarshal /\ prev.content = "chan"
    /\ last.op = "XML" /\ last.content = "struct" /\ last.err = ErrNone
    /\ committed
    /\ HeaderGet(wireHeader, HeaderContentType) = MIMEApplicationXMLCharsetUTF8

\* C9: the stored status is the status code of the status line that went
\* out, and is 0 exactly when none has: 0 before the first
\* WriteHeader/Send/Write, the first committed status after WriteHeader or
\* Send, 200 after a first Write that committed implicitly.
C9_StatusIsWireStatus ==
    /\ status = wireStatus
    /\ status = 0 <=> ~wroteHeader

\* C10: size is the number of bytes the writer has reported written since
\* construction or the last reset, partial writes included; on a Send that
\* succeeds it grows by len(content) on the plain path and by the length of
\* the compressed buffer on the compressed path; only reset makes it smaller
\* and WriteHeader and NoContent leave it alone.
C10_SizeCountsWrittenBytes ==
    /\ size = Len(wireBody)
    /\ last.op \notin {"new", "reset"} => size >= last.pre.size
    /\ last.op \in {"WriteHeader", "NoContent"} => size = last.pre.size
    /\ (UncompressedSend /\ last.err = ErrNone) =>
          size = last.pre.size + Len(last.content)
    /\ (CompressedSend /\ last.err = ErrNone) =>
          size = last.pre.size +
                 Len(WriteBody(ParseEncoding(acceptEncoding), last.content).buf)

C10_Witness ==
    /\ prev.op = "Send" /\ prev.content = "abc" /\ prev.err = ErrNone
    /\ last.pre.size = Len(Compress("gzip", "abc"))
    /\ last.op = "Write" /\ last.content = "0123456789"
    /\ last.err = ErrTransport
    /\ size = last.pre.size + 5

\* ------------------------------------------------------ Context.SetCookie
HasPrefix(str, pre) == Len(str) >= Len(pre) /\ SubSeq(str, 1, Len(pre)) = pre

\* str cut at every occurrence of the one-byte separator c.
SplitOn(str, c) ==
    LET at == {i \in 1..Len(str) : SubSeq(str, i, i) = c}
        n == Cardinality(at)
        pos(k) == CHOOSE i \in at : Cardinality({j \in at : j < i}) = k - 1
        from(k) == IF k = 1 THEN 1 ELSE pos(k - 1) + 1
        to(k) == IF k = n + 1 THEN Len(str) ELSE pos(k) - 1
    IN  [k \in 1..(n + 1) |-> SubSeq(str, from(k), to(k))]

CookieCall == last.op = "Context.SetCookie"
\* The Set-Cookie entry the call added, and its attributes: what follows
\* each ';' of the entry.
Emitted == header[HeaderSetCookie][Len(header[HeaderSetCookie])]
EmittedAttrs == Tail(SplitOn(Emitted, ";"))
IsPathAttr(a) == HasPrefix(a, " Path=")
PathAttrs == SelectSeq(EmittedAttrs, IsPathAttr)
ExplicitPath(o) == Len(o) > 1 /\ o[2].t = "string" /\ o[2].s # ""

\* C11 as stated: every cookie carries exactly one Path attribute, the given
\* path when the second optional argument is a non-empty string and the
\* default "/" in every other case, whatever follows.
C11_PathInEveryCookie ==
    CookieCall =>
        LET o == last.args.others
        IN  PathAttrs = IF ExplicitPath(o) THEN <<" Path=" \o o[2].s>>
                        ELSE <<" Path=/">>

\* C11: the cookie carries the given path when the second optional argument
\* is a non-empty string, the default "/" when fewer than two optional
\* arguments are passed, and no Path attribute at all when a second optional
\* argument is passed that is nil, an empty string or not a string.
C11_PathDefaultOnlyWhenAbsent ==
    CookieCall =>
        LET o == last.args.others
        IN  PathAttrs = IF ExplicitPath(o) THEN <<" Path=" \o o[2].s>>
                        ELSE IF Len(o) <= 1 THEN <<" Path=/">>
                        ELSE <<>>

C11_Witness ==
    /\ CookieCall
    /\ Len(last.args.others) = 5
    /\ last.args.others[2] = GoNil
    /\ last.args.others[3] = GoString("ex.com")
    /\ PathAttrs = <<>>
    /\ Emitted = "sid=v; Domain=ex.com; Secure; HttpOnly"

\* The attributes in the order the claim gives them; 0 for anything else.
AttrKind(a) ==
    CASE HasPrefix(a, " Expires=") -> 1
      [] HasPrefix(a, " Max-Age=") -> 2
      [] HasPrefix(a, " Path=") -> 3
      [] HasPrefix(a, " Domain=") -> 4
      [] a = " Secure" -> 5
      [] a = " HttpOnly" -> 6
      [] OTHER -> 0

AttrsOfKind(k) == SelectSeq(EmittedAttrs, LAMBDA a : AttrKind(a) = k)

IntTypes == {"int", "int32", "int64"}
\* A value that is true, a non-zero number or a non-empty string.
Truthy(v) ==
    \/ v.t = "bool" /\ v.b
    \/ v.t \in IntTypes /\ v.i # 0
    \/ v.t = "string" /\ v.s # ""
\* A boolean true, or any value that is neither a boolean nor nil.
TrueOrNonNil(v) == IF v.t = "bool" THEN v.b ELSE v.t # "nil"

\* The entry is name=value followed by the attributes in their fixed order,
\* each present exactly for its argument; Secure is present exactly when
\* secureFor holds of the fourth optional argument.
CookieShape(secureFor(_)) ==
    LET o == last.args.others
        maxAge == IF Len(o) > 0 /\ o[1].t \in IntTypes THEN o[1].i ELSE 0
        at == EmittedAttrs
    IN  /\ SplitOn(Emitted, ";")[1]
             = sanitizeName(last.args.name) \o "=" \o sanitizeValue(last.content)
        /\ \A i \in 1..Len(at) : AttrKind(at[i]) # 0
        /\ \A i \in 1..(Len(at) - 1) : AttrKind(at[i]) < AttrKind(at[i + 1])
        /\ AttrsOfKind(1) = IF maxAge > 0
                            THEN <<" Expires=" \o FormatRFC1123(last.args.now + maxAge)>>
                            ELSE <<>>
        /\ AttrsOfKind(2) = IF maxAge > 0 THEN <<" Max-Age=" \o Itoa(maxAge)>>
                            ELSE IF maxAge < 0 THEN <<" Max-Age=0">>
                            ELSE <<>>
        /\ AttrsOfKind(4) = IF Len(o) > 2 /\ o[3].t = "string" /\ o[3].s # ""
                            THEN <<" Domain=" \o o[3].s>> ELSE <<>>
        /\ AttrsOfKind(5) = IF Len(o) > 3 /\ secureFor(o[4])
                            THEN <<" Secure">> ELSE <<>>
        /\ AttrsOfKind(6) = IF Len(o) > 4 /\ o[5].t = "bool" /\ o[5].b
                            THEN <<" HttpOnly">> ELSE <<>>

\* C12 as stated: for every combination of optional arguments the entry is
\* name=value followed by expiry, Path, Domain, Secure, HttpOnly in that
\* order, with Expires and Max-Age=<n> exactly for a positive max age,
\* Max-Age=0 alone exactly for a negative one, Domain only for a non-empty
\* string, Secure only for a truthy value (0 and "" suppress it) and
\* HttpOnly only for boolean true.
C12_SecureOnlyForTruthy == CookieCall => CookieShape(Truthy)

\* C12: the same order and presence rules, with Secure present for boolean
\* true and for every non-nil value that is not a boolean, 0 and ""
\* included, and absent for an absent, nil or false argument.
C12_SecureForTrueOrNonNil == CookieCall => CookieShape(TrueOrNonNil)

C12_Witness ==
    /\ CookieCall
    /\ last.args.others = <<GoInt(3), GoString("/app"), GoString("ex.com"),
                            GoInt(0), GoBool(TRUE)>>
    /\ last.args.now = 30
    /\ Emitted = "sid=v; Expires=Thu, 01 Jan 1970 00:00:33 UTC; Max-Age=3; "
                   \o "Path=/app; Domain=ex.com; Secure; HttpOnly"

\* C13: for all names and values, the entry starts with the name with each
\* CR and LF replaced by '-', then '=', then the value with each CR, LF and
\* ';' replaced by one space; so this part holds no raw CR or LF, the value
\* part holds no ';' and is as long as the value passed in.
C13_NameAndValueSanitized ==
    CookieCall =>
        LET n == last.args.name
            v == last.content
            e == Emitted
            vEnd == Len(n) + 1 + Len(v)
        IN  /\ Len(e) >= vEnd
            /\ \A i \in 1..Len(n) :
                  CharAt(e, i) = IF CharAt(n, i) \in {"\n", "\r"} THEN "-"
                                 ELSE CharAt(n, i)
            /\ CharAt(e, Len(n) + 1) = "="
            /\ \A j \in 1..Len(v) :
                  CharAt(e, Len(n) + 1 + j)
                    = IF CharAt(v, j) \in {"\n", "\r", ";"} THEN " "
                      ELSE CharAt(v, j)
            /\ \A i \in 1..vEnd : CharAt(e, i) \notin {"\n", "\r"}
            /\ \A i \in (Len(n) + 2)..vEnd : CharAt(e, i) # ";"
            /\ Len(e) > vEnd => CharAt(e, vEnd + 1) = ";"

C13_Witness ==
    /\ CookieCall
    /\ last.args.name = "a\nb\rc"
    /\ last.content = "a\r\nb;"
    /\ last.args.others = <<>>
    /\ Emitted = "a-b-c=a  b ; Path=/"

\* ------------------------------------------------------- cookie operations
AppendingCalls == {"AddCookie", "Context.SetCookie", "SetSecureCookie"}
CookieCalls == AppendingCalls \cup {"SetCookie", "DelCookie"}
SetCookieEntries == header[HeaderSetCookie]
SetCookieEntriesBefore == last.pre.header[HeaderSetCookie]

\* C14: Response.AddCookie and Context.SetCookie append one Set-Cookie entry
\* and keep the earlier ones in order (so n calls give n entries),
\* Response.SetCookie leaves exactly its own entry, Response.DelCookie leaves
\* none; none of the four changes status, size, committed or any other
\* header, or hands the writer anything.
C14_CookieEntriesEvolve ==
    /\ last.op \in AppendingCalls =>
          /\ Len(SetCookieEntries) = Len(SetCookieEntriesBefore) + 1
          /\ SubSeq(SetCookieEntries, 1, Len(SetCookieEntriesBefore))
               = SetCookieEntriesBefore
    /\ last.op = "AddCookie" => Emitted = last.content
    /\ last.op = "Context.SetCookie" =>
          HasPrefix(Emitted, last.args.name \o "=" \o last.content \o ";")
    /\ (steps = 2 /\ prev.op \in AppendingCalls /\ last.op \in AppendingCalls)
          => Len(SetCookieEntries) = 2
    /\ last.op = "SetCookie" => SetCookieEntries = <<last.content>>
    /\ last.op = "DelCookie" => SetCookieEntries = <<>>
    /\ last.op \in CookieCalls =>
          /\ SameResponse
          /\ SameWire
          /\ \A k \in HeaderKeys \ {HeaderSetCookie} :
                header[k] = last.pre.header[k]

C14_Witness ==
    /\ last.op = "SetCookie"
    /\ prev.op = "Context.SetCookie"
    /\ SetCookieEntriesBefore = <<"a=1", "sid=v; Max-Age=0; Path=/app">>
    /\ SetCookieEntries = <<"b=2">>

\* ---------------------------------------------------- optional capabilities
CapabilityCalls == {"Hijack", "Flush", "CloseNotify"}

\* C15: on a writer without the capability Hijack returns an error with no
\* connection and no buffer, Flush does nothing and CloseNotify returns nil;
\* on a writer with it the call is forwarded to the writer exactly once; in
\* every case status, size, committed and the header map stay as they were.
C15_OptionalCapabilities ==
    /\ last.op = "Hijack" =>
          IF "Hijacker" \in caps
          THEN /\ last.ev = <<<<"hijack", "">>, <<"return", "conn, rw">>>>
               /\ last.err = ErrNone
          ELSE /\ last.ev = <<<<"return", "nil, nil">>>>
               /\ last.err # ErrNone
               /\ SameWire
    /\ last.op = "Flush" =>
          IF "Flusher" \in caps
          THEN last.ev = <<<<"flush", "">>>>
          ELSE last.ev = <<>> /\ SameWire
    /\ last.op = "CloseNotify" =>
          IF "CloseNotifier" \in caps
          THEN last.ev = <<<<"closenotify", "">>, <<"return", "chan">>>>
          ELSE last.ev = <<<<"return", "nil">>>> /\ SameWire
    /\ last.op \in CapabilityCalls =>
          SameResponse /\ header = last.pre.header

C15_Witness ==
    /\ last.op = "Hijack"
    /\ caps = {}
    /\ last.err = ErrHijack
    /\ committed
    /\ header[HeaderContentLength] = <<"3">>

\* ------------------------------------------------------------------- JSONP
\* What the call handed to writer.Write, in order.
BodyWrites == SelectSeq(last.ev, LAMBDA e : e[1] = "body")
HeaderMutations == SelectSeq(last.ev, LAMBDA e : e[1] = "set")

\* C16: JSONP with data that marshals sets Content-Type to
\* application/javascript; charset=utf-8 and sends, through Send, the body
\* " if(window." cb ")" cb "(" json ");\r\n" with cb the JS-escaped callback
\* in both places and json the data, compact in production run mode and
\* indented by two spaces otherwise: on an uncommitted response these bytes
\* (or their negotiated encoding) are what the writer gets, on a committed
\* one Send rejects them.
C16_JSONPPayload ==
    (last.op = "JSONP" /\ last.content \in {"struct", "map"}) =>
        LET cb == JSEscapeString(last.args.callback)
            json == jsonMarshal(last.content, last.args.mode # RUNMODE_PROD).b
            body == " if(window." \o cb \o ")" \o cb \o "(" \o json \o ");\r\n"
        IN  /\ header[HeaderContentType] = <<MIMEApplicationJavaScriptCharsetUTF8>>
            /\ HeaderMutations[1] = <<"set", HeaderContentType>>
            /\ IF last.pre.committed
               THEN BodyWrites = <<>> /\ last.err = ErrCommitted
               ELSE BodyWrites =
                      IF HeaderGet(header, HeaderContentEncoding) = "gzip"
                           /\ HeaderGet(last.pre.header, HeaderContentEncoding) = ""
                      THEN <<<<"body", Compress("gzip", body)>>>>
                      ELSE <<<<"body", body>>>>

C16_Witness ==
    /\ last.op = "JSONP"
    /\ last.args.callback = "a'b"
    /\ last.args.mode = RUNMODE_DEV
    /\ last.err = ErrNone
    /\ BodyWrites =
         <<<<"body", " if(window.a\\'b)a\\'b({\n  \"A\": 1\n});\r\n">>>>
    /\ wireBody = " if(window.a\\'b)a\\'b({\n  \"A\": 1\n});\r\n"

\* ------------------------------------------------------------ Context.File
\* The base names of the paths File is called with.
BaseNameOf(file) ==
    CASE file = "/tmp/report.pdf" -> "report.pdf"
      [] file = "report.pdf" -> "report.pdf"
      [] file = "/srv/files/" -> "files"
      [] file = "" -> "."

\* C17: File sets Content-Disposition to "attachment; filename=" followed by
\* the first display name when one is given and not empty, and by the base
\* name of the path otherwise; it sets this and the six other download
\* headers first, and then calls the file server once, with the path it was
\* given.
C17_FileDownloadHeaders ==
    last.op = "File" =>
        LET names == last.args.filename
            shown == IF Len(names) > 0 /\ names[1] # "" THEN names[1]
                     ELSE BaseNameOf(last.content)
        IN  /\ header[HeaderContentDisposition] = <<"attachment; filename=" \o shown>>
            /\ header[HeaderContentDescription] = <<"File Transfer">>
            /\ header[HeaderContentType] = <<"application/octet-stream">>
            /\ header[HeaderContentTransferEncoding] = <<"binary">>
            /\ header[HeaderExpires] = <<"0">>
            /\ header[HeaderCacheControl] = <<"must-revalidate">>
            /\ header[HeaderPragma] = <<"public">>
            /\ Len(last.ev) = 8
            /\ \A i \in 1..7 : last.ev[i][1] = "set"
            /\ {last.ev[i][2] : i \in 1..7}
                 = {HeaderContentDescription, HeaderContentType,
                    HeaderContentDisposition, HeaderContentTransferEncoding,
                    HeaderExpires, HeaderCacheControl, HeaderPragma}
            /\ last.ev[8] = <<"servefile", last.content>>

C17_Witness ==
    /\ last.op = "File"
    /\ last.content = "/srv/files/"
    /\ last.args.filename = <<"", "x.pdf">>
    /\ header[HeaderContentDisposition] = <<"attachment; filename=files">>
    /\ last.ev[8] = <<"servefile", "/srv/files/">>

\* --------------------------------------------------- repeated WriteHeader
\* C18: WriteHeader(s) on a committed Response has no effect: status keeps
\* the value it had (not s), size and committed are unchanged, the
\* pre-commit hook is not invoked, the writer's WriteHeader is not called
\* and the header map is untouched; all the call does is log one warning.
C18_CommittedWriteHeaderOnlyWarns ==
    (last.op \in {"WriteHeader", "NoContent"} /\ last.pre.committed) =>
        /\ SameResponse
        /\ hookCalls = last.pre.hookCalls
        /\ SameWire
        /\ header = last.pre.header
        /\ encCalls = last.pre.encCalls
        /\ last.ev = <<<<"warn", "">>>>
        /\ warnings = last.pre.warnings + 1

C18_Witness ==
    /\ prev.op = "WriteHeader" /\ ~prev.preCommitted /\ prev.status = StatusOK
    /\ last.op = "WriteHeader" /\ last.status = StatusNotFound
    /\ status = StatusOK
    /\ whCalls = <<StatusOK>>
    /\ hookCalls = 1
    /\ warnings = 1

\* ------------------------------------------------------------ commit order
CommittingCall ==
    last.op \in {"WriteHeader", "NoContent", "Send"} /\ ~last.pre.committed
EventsOf(kind) == {i \in 1..Len(last.ev) : last.ev[i][1] = kind}

\* C19: a committing WriteHeader, NoContent or Send first makes all its
\* header changes, then runs the pre-commit hook, then hands the status line
\* and headers to the writer, then sets committed, and only then writes body
\* bytes; between resets the hook has run once if the response is committed
\* and not at all otherwise, whatever calls were made.
C19_CommitOrder ==
    /\ CommittingCall =>
          /\ Cardinality(EventsOf("hook")) = 1
          /\ LET h == CHOOSE i \in EventsOf("hook") : TRUE
             IN  /\ \A i \in EventsOf("set") \cup EventsOf("encode") : i < h
                 /\ Len(last.ev) >= h + 2
                 /\ last.ev[h + 1] = <<"status", Itoa(last.status)>>
                 /\ last.ev[h + 2] = <<"committed", "">>
                 /\ \A i \in (h + 3)..Len(last.ev) : last.ev[i][1] = "body"
                 /\ \A i \in EventsOf("body") : i > h + 2
                 /\ \A i \in 1..(h - 1) : last.ev[i][1] \in {"set", "encode"}
                 /\ wireBody # last.pre.wireBody => EventsOf("body") # {}
          /\ committed
    /\ hookCalls = IF committed THEN 1 ELSE 0

C19_Witness ==
    /\ last.op = "Send"
    /\ last.ev = <<<<"encode", "abc">>, <<"set", HeaderContentEncoding>>,
                   <<"hook", "">>, <<"status", "404">>, <<"committed", "">>,
                   <<"body", "<gzip>abc">>>>
    /\ prev.op = "reset"
    /\ hookCalls = 1

\* ------------------------------------------------------------------- reset
\* The state now is what the call that led to it returns as w.
StateIs(w) ==
    /\ status = w.status /\ size = w.size /\ committed = w.committed
    /\ header = w.header /\ wroteHeader = w.wroteHeader
    /\ wireStatus = w.wireStatus /\ wireHeader = w.wireHeader
    /\ wireBody = w.wireBody /\ whCalls = w.whCalls
    /\ hookCalls = w.hookCalls /\ warnings = w.warnings
    /\ encCalls = w.encCalls
    /\ last.ev = w.ev /\ last.err = w.err

\* C20: reset(w) in any state gives status 0, size 0, committed false and
\* the writer w, the state of a newly constructed Response on w; the
\* WriteHeader, Write or Send that follows does what it does on a new
\* Response, and a WriteHeader or Send commits with its own status and is
\* not taken for a second commit.
C20_ResetIsNewResponse ==
    /\ last.op = "reset" =>
          /\ status = 0 /\ size = 0 /\ ~committed
          /\ StateIs(newResponse)
    /\ (prev.op = "reset" /\ last.op = "WriteHeader") =>
          /\ StateIs(WriteHeader(newResponse, last.status))
          /\ committed /\ status = last.status /\ warnings = 0
          /\ whCalls = <<last.status>>
    /\ (prev.op = "reset" /\ last.op = "Write") =>
          \E t \in WriterOutcomes : StateIs(Write(newResponse, last.content, t))
    /\ (prev.op = "reset" /\ last.op = "Send") =>
          /\ \E t \in WriterOutcomes :
                StateIs(Send(newResponse, last.status, last.content, t))
          /\ committed /\ status = last.status /\ last.err # ErrCommitted
          /\ whCalls = <<last.status>>

C20_Witness ==
    /\ prev.op = "reset" /\ prev.preCommitted
    /\ last.op = "Send" /\ last.status = StatusNotFound
    /\ last.content = "abc" /\ last.err = ErrNone
    /\ committed /\ status = StatusNotFound /\ size = 3
    /\ whCalls = <<StatusNotFound>>

\* ------------------------------------------------- status classification
\* The codes the documentation of the helper named h gives.
Documented(h, code) ==
    CASE h = "IsOk" -> code = 200
      [] h = "IsSuccessful" -> code \in 200..299
      [] h = "IsRedirect" -> code \in {301, 302, 307}
      [] h = "IsEmpty" -> code \in {201, 204, 304}
      [] h = "IsCachable" -> code \in 200..299 \/ code = 304
      [] h = "IsForbidden" -> code = 403
      [] h = "IsNotFound" -> code = 404
      [] h = "IsClientError" -> code \in 400..499
      [] h = "IsServerError" -> code \in 500..599

\* C21: a status classification helper, called in any state, changes
\* neither status, size, committed nor the headers and hands the writer
\* nothing, and returns true exactly for the codes its documentation names:
\* IsOk 200, IsSuccessful 2xx, IsRedirect 301, 302 and 307 only, IsEmpty
\* 201, 204 and 304, IsCachable 2xx and 304, IsForbidden 403, IsNotFound
\* 404, IsClientError 4xx, IsServerError 5xx.
C21_HelpersAnswerAsDocumented ==
    last.op \in Helpers =>
        /\ SameResponse
        /\ header = last.pre.header
        /\ SameWire
        /\ last.ev = <<>>
        /\ last.args.result = Documented(last.op, status)

====
